---------------------------- MODULE Spec2Model ----------------------------
(***************************************************************************)
(* Model of src/calculate_reimbursement.py.                                *)
(*                                                                         *)
(* Numbers.  The program computes with binary floating point.  The model   *)
(* computes the same expressions exactly: every amount of one call is an   *)
(* integer numerator over the denominator Scale(days), which is            *)
(* 1000 * days for days > 0 (the two per-day quotients divide by days) and *)
(* 1000 otherwise.  Miles are whole miles, receipts whole cents.  The      *)
(* floating point total differs from the exact one by far less than a      *)
(* cent, so round(total, 2) returns the cent nearest to the exact total,   *)
(* except when the exact total lies halfway between two cents: there the   *)
(* representation error of the float decides the direction.  The model     *)
(* keeps that direction as an unknown but fixed function of the input:     *)
(* fpUp is the set of inputs whose halfway total comes out rounded up.     *)
(* A local that holds the float NaN is recorded by name in nan; its        *)
(* integer value is then a placeholder.                                    *)
(***************************************************************************)
EXTENDS Integers, Sequences, FiniteSets, TLC

VARIABLES
    pc,                 \* per call: position in calculate_reimbursement
    args,               \* per call: the three arguments as passed
    days,               \* per call: local  days      (line 17)
    miles,              \* per call: local  miles     (line 18), whole miles
    receipts,           \* per call: local  receipts  (line 19), cents
    base_calculation,   \* per call: local, numerator over Scale(days)
    efficiency_bonus,   \* per call: local, numerator over Scale(days)
    receipt_multiplier, \* per call: local, in tenths
    days_multiplier,    \* per call: local, dollars per day
    miles_component,    \* per call: local, numerator over Scale(days)
    total,              \* per frame: local total, numerator over Scale(days)
    outcome,            \* per call: "none", "returned" or the exception raised
    result,             \* per call: the value returned, numerator over Scale(days)
    fpUp,               \* inputs whose halfway total the float rounds upwards
    nan,                \* per call: the names of the locals that hold NaN
    argv,               \* sys.argv[1:], the command-line arguments
    mpc,                \* position in the __main__ block
    stdout,             \* what the program has printed
    exit_code           \* <<>> while running, <<status>> once exited

vars == <<pc, args, days, miles, receipts, base_calculation, efficiency_bonus, receipt_multiplier,
          days_multiplier, miles_component, total, outcome, result, fpUp,
          nan, argv, mpc, stdout, exit_code>>

(* the state of the __main__ block *)
mainVars == <<argv, mpc, stdout, exit_code>>

---------------------------------------------------------------------------
(* Bounds of the input domain *)
MaxDays == 16
MaxMilesHundreds == 12
MaxK == 3
MaxReceiptSteps == 14
NumCallers == 2

(* trip_duration_days values; -1 and 0 are the non-positive durations *)
DayValues == (-1)..MaxDays

(* miles_traveled values, whole miles: a negative one, the hundreds, the   *)
(* neighbourhood of the 500-mile tier boundary, the spec's scenarios       *)
MileValues ==
    {-100} \cup {100 * i : i \in 0..MaxMilesHundreds}
           \cup {500 + k : k \in 0..MaxK}
           \cup {50, 499, 550, 600, 601, 1001}

(* total_receipts_amount values, in cents: a negative one, multiples of    *)
(* 50.00, the per-day tier boundaries, amounts with odd cents              *)
ReceiptValues ==
    {-1000} \cup {5000 * i : i \in 0..MaxReceiptSteps}
            \cup {1, 1000, 4999, 5001, 5217, 14999, 15001, 30001, 30003,
                  90000, 150000, 300000}

(* An argument is a numeric value or a text that is not a number.          *)
(* kind "int": an integer literal; "float": a decimal literal (days only:  *)
(* int() rejects it); "text": not a number, rejected by int() and float(); *)
(* "nan": the text nan, which float() accepts and int() rejects.           *)
Arg(k, v) == [kind |-> k, val |-> v]

DayArgs == {Arg("int", d) : d \in DayValues}
MileArgs == {Arg("int", m) : m \in MileValues}
ReceiptArgs == {Arg("float", r) : r \in ReceiptValues}

Inputs == {<<d, m, r>> : d \in DayArgs, m \in MileArgs, r \in ReceiptArgs}

---------------------------------------------------------------------------
(* Exact arithmetic *)

Max(a, b) == IF a >= b THEN a ELSE b
Min(a, b) == IF a <= b THEN a ELSE b

(* denominator of every amount of a call with this days *)
Scale(d) == 1000 * (IF d > 0 THEN d ELSE 1)

(* an integer (dollars, miles) as a numerator *)
Num(n, d) == n * Scale(d)

(* an amount of cents as a numerator *)
CentsNum(c, d) == c * (Scale(d) \div 100)

(* x * (t / 10), t a decimal constant of the program given in tenths *)
TimesTenths(x, t) == (x * t) \div 10

(* Python's  x / y  on numbers: raises ZeroDivisionError when y = 0 *)
TrueDivRaises(y) == y = 0
TrueDiv(x, y) == x \div y

(* round(x, 2): the nearest cent; halfway, the direction up says *)
Round2(x, d, up) ==
    LET unit == Scale(d) \div 100
        q    == x \div unit
        rem  == x % unit
    IN  IF 2 * rem > unit \/ (2 * rem = unit /\ up) THEN (q + 1) * unit
        ELSE q * unit

(* x is a whole number of cents *)
WholeCents(x, d) == x % (Scale(d) \div 100) = 0

---------------------------------------------------------------------------
(* The statements of calculate_reimbursement, as functions of its locals *)

(* int(days), float(miles), float(receipts): lines 17-19 *)
IntRaises(a) == a.kind # "int"
FloatRaises(a) == a.kind = "text"
FloatIsNaN(a) == a.kind = "nan"
CoerceRaises(in) == IntRaises(in[1]) \/ FloatRaises(in[2]) \/ FloatRaises(in[3])

(* line 22: 75 * days + 0.50 * receipts + 0.50 * miles *)
BaseCalculation(d, m, r) ==
    Num(75 * d, d) + TimesTenths(CentsNum(r, d), 5) + TimesTenths(Num(m, d), 5)

(* variant: the guard written `days >= 0` *)
DaysNonNegative(d) == d >= 0

(* the condition of  `... / days if days > 0 else 0` : lines 27 and 36 *)
DaysPositive(d) == d > 0

(* lines 27, 36: does evaluating the per-day quotient raise? *)
PerDayRaises(d) == DaysPositive(d) /\ TrueDivRaises(d)

(* line 27 *)
miles_per_day(d, m) == IF DaysPositive(d) THEN TrueDiv(Num(m, d), d) ELSE 0

(* variant: the rate applied to the whole quotient, `- 100` forgotten *)
EfficiencyBonusWhole(d, m) ==
    IF miles_per_day(d, m) > Num(100, d)
    THEN TimesTenths(miles_per_day(d, m), 3)
    ELSE 0

(* lines 28-30 *)
EfficiencyBonus(d, m) ==
    IF miles_per_day(d, m) > Num(100, d)
    THEN TimesTenths(miles_per_day(d, m) - Num(100, d), 3)
    ELSE 0

(* line 36 *)
receipts_per_day(d, r) == IF DaysPositive(d) THEN TrueDiv(CentsNum(r, d), d) ELSE 0

(* variant: the brackets taken from the receipts amount, not per day *)
ReceiptMultiplierAbsolute(d, r) ==
    IF CentsNum(r, d) > Num(300, d) THEN 2
    ELSE IF CentsNum(r, d) > Num(150, d) THEN 4
    ELSE IF CentsNum(r, d) < Num(50, d) THEN 6
    ELSE 5

(* variant: the low bracket written `<= 50` *)
ReceiptMultiplierInclusive(d, r) ==
    IF receipts_per_day(d, r) > Num(300, d) THEN 2
    ELSE IF receipts_per_day(d, r) > Num(150, d) THEN 4
    ELSE IF receipts_per_day(d, r) <= Num(50, d) THEN 6
    ELSE 5

(* lines 33-45, in tenths *)
ReceiptMultiplier(d, r) ==
    IF receipts_per_day(d, r) > Num(300, d) THEN 2
    ELSE IF receipts_per_day(d, r) > Num(150, d) THEN 4
    ELSE IF receipts_per_day(d, r) < Num(50, d) THEN 6
    ELSE 5

(* variant: the long-trip bracket written `days >= 10` *)
DaysMultiplierInclusive(d) ==
    IF d = 1 THEN 90
    ELSE IF d >= 10 THEN 65
    ELSE 75

(* variant: the long-trip rate written 55 *)
DaysMultiplierLow(d) ==
    IF d = 1 THEN 90
    ELSE IF d > 10 THEN 55
    ELSE 75

(* lines 48-53 *)
DaysMultiplier(d) ==
    IF d = 1 THEN 90
    ELSE IF d > 10 THEN 65
    ELSE 75

(* variant: above 500 miles the reduced rate applied to all the miles *)
MilesComponentFlat(d, m) ==
    IF m > 500
    THEN TimesTenths(Num(m, d), 3)
    ELSE TimesTenths(Num(m, d), 5)

(* variant: the two rates exchanged *)
MilesComponentSwapped(d, m) ==
    IF m > 500
    THEN TimesTenths(Num(500, d), 3) + TimesTenths(Num(m - 500, d), 5)
    ELSE TimesTenths(Num(m, d), 3)

(* variant: above 500 miles only the excess counted *)
MilesComponentExcessOnly(d, m) ==
    IF m > 500
    THEN TimesTenths(Num(m - 500, d), 3)
    ELSE TimesTenths(Num(m, d), 5)

(* lines 56-62 *)
MilesComponent(d, m) ==
    IF m > 500
    THEN TimesTenths(Num(500, d), 5) + TimesTenths(Num(m - 500, d), 3)
    ELSE TimesTenths(Num(m, d), 5)

(* variant: the multiplier applied to receipts_per_day *)
SumTotalPerDay(dm, rm, mc, eb, d, r) ==
    Num(dm * d, d) + TimesTenths(receipts_per_day(d, r), rm) + mc + eb

(* lines 65-68 *)
SumTotal(dm, rm, mc, eb, d, r) ==
    Num(dm * d, d) + TimesTenths(CentsNum(r, d), rm) + mc + eb

(* line 71 *)
minimum(d) == Num(d * 60, d)

(* line 72 *)
FloorClamp(t, d) == Max(t, minimum(d))

(* variant: `days * 30` for `days * 300` *)
reasonable_max_30(d, m, r) ==
    Num(d * 30, d) + TimesTenths(CentsNum(r, d), 15) + Num(m, d) * 2

(* variant: `- receipts * 1.5` for `+ receipts * 1.5` *)
reasonable_max_minus(d, m, r) ==
    Num(d * 300, d) - TimesTenths(CentsNum(r, d), 15) + Num(m, d) * 2

(* line 75 *)
reasonable_max(d, m, r) ==
    Num(d * 300, d) + TimesTenths(CentsNum(r, d), 15) + Num(m, d) * 2

(* variant: the cap added to the total instead of bounding it *)
CapClampSum(t, d, m, r) == t + reasonable_max(d, m, r)

(* variant: the floor clamp placed after the cap clamp *)
CapClampFloorLast(t, d, m, r) == Max(Min(t, reasonable_max(d, m, r)), minimum(d))

(* line 76 *)
CapClamp(t, d, m, r) == Min(t, reasonable_max(d, m, r))

(* variant: `return total`, the rounding forgotten *)
ReturnValueUnrounded(t, d, up) == t

(* line 78 *)
ReturnValue(t, d, up) == Round2(t, d, up)

(* total as it stands before line 78, for coerced d, m, r *)
ClampedTotal(d, m, r) ==
    CapClamp(FloorClamp(SumTotal(DaysMultiplier(d), ReceiptMultiplier(d, r),
                                 MilesComponent(d, m), EfficiencyBonus(d, m),
                                 d, r), d), d, m, r)

(* the exact total lies halfway between two cents *)
IsTie(d, m, r) ==
    LET unit == Scale(d) \div 100
    IN  2 * (ClampedTotal(d, m, r) % unit) = unit

(* the whole function on numbers: lines 6-78 *)
calculate_reimbursement(d, m, r, up) ==
    IF PerDayRaises(d) THEN [outcome |-> "ZeroDivisionError", value |-> 0]
    ELSE [outcome |-> "returned",
          value |-> ReturnValue(ClampedTotal(d, m, r), d, up)]

---------------------------------------------------------------------------
(* Calls *)

(* variant: total kept in one module-level variable *)
FrameGlobal(c) == 1

(* total is a local variable: each call has its own *)
Frame(c) == c

Frames(cs) == {Frame(c) : c \in cs}

Calls == DOMAIN pc

NumericInput(in) == ~CoerceRaises(in)

(* inputs whose exact total is halfway between two cents *)
TieInputs(ins) ==
    {in \in ins : /\ NumericInput(in)
                  /\ ~FloatIsNaN(in[2]) /\ ~FloatIsNaN(in[3])
                  /\ ~PerDayRaises(in[1].val)
                  /\ IsTie(in[1].val, in[2].val, in[3].val)}

RoundsUp(c) == args[c] \in fpUp

InitCalls(cs, ins) ==
    /\ pc = [c \in cs |-> "call"]
    /\ args \in [cs -> ins]
    /\ days = [c \in cs |-> 0]
    /\ miles = [c \in cs |-> 0]
    /\ receipts = [c \in cs |-> 0]
    /\ base_calculation = [c \in cs |-> 0]
    /\ efficiency_bonus = [c \in cs |-> 0]
    /\ receipt_multiplier = [c \in cs |-> 0]
    /\ days_multiplier = [c \in cs |-> 0]
    /\ miles_component = [c \in cs |-> 0]
    /\ total = [f \in Frames(cs) |-> 0]
    /\ outcome = [c \in cs |-> "none"]
    /\ result = [c \in cs |-> 0]
    /\ nan = [c \in cs |-> {}]

(* the function used as a library: no __main__ block runs *)
NoMain ==
    /\ argv = <<>>
    /\ mpc = "none"
    /\ stdout = <<>>
    /\ exit_code = <<>>

(* one run of the program: a single call *)
Init ==
    /\ InitCalls({1}, Inputs)
    /\ fpUp \in SUBSET TieInputs({args[1]})
    /\ NoMain

Raise(c, e) ==
    /\ pc' = [pc EXCEPT ![c] = "done"]
    /\ outcome' = [outcome EXCEPT ![c] = e]

(* lines 17-19 *)
Coerce(c) ==
    /\ pc[c] = "call"
    /\ IF CoerceRaises(args[c])
       THEN /\ Raise(c, "ValueError")
            /\ UNCHANGED <<days, miles, receipts, nan>>
       ELSE /\ days' = [days EXCEPT ![c] = args[c][1].val]
            /\ miles' = [miles EXCEPT ![c] = args[c][2].val]
            /\ receipts' = [receipts EXCEPT ![c] = args[c][3].val]
            /\ nan' = [nan EXCEPT ![c] =
                          {n \in {"miles"} : FloatIsNaN(args[c][2])}
                          \cup {n \in {"receipts"} : FloatIsNaN(args[c][3])}]
            /\ pc' = [pc EXCEPT ![c] = "base"]
            /\ UNCHANGED outcome
    /\ UNCHANGED <<args, base_calculation, efficiency_bonus, receipt_multiplier,
                   days_multiplier, miles_component, total, result, fpUp,
                   mainVars>>

(* line 22; NaN when miles or receipts is *)
BaseFormula(c) ==
    /\ pc[c] = "base"
    /\ IF nan[c] # {}
       THEN /\ nan' = [nan EXCEPT ![c] = @ \cup {"base_calculation"}]
            /\ UNCHANGED base_calculation
       ELSE /\ base_calculation' =
                  [base_calculation EXCEPT ![c] =
                       BaseCalculation(days[c], miles[c], receipts[c])]
            /\ UNCHANGED nan
    /\ pc' = [pc EXCEPT ![c] = "bonus"]
    /\ UNCHANGED <<args, days, miles, receipts, efficiency_bonus,
                   receipt_multiplier, days_multiplier, miles_component,
                   total, outcome, result, fpUp, mainVars>>

(* lines 27-30; with miles NaN the quotient is NaN and `> 100` is false *)
Bonus(c) ==
    /\ pc[c] = "bonus"
    /\ IF PerDayRaises(days[c])
       THEN /\ Raise(c, "ZeroDivisionError")
            /\ UNCHANGED efficiency_bonus
       ELSE /\ efficiency_bonus' =
                  [efficiency_bonus EXCEPT ![c] =
                       IF "miles" \in nan[c] THEN 0
                       ELSE EfficiencyBonus(days[c], miles[c])]
            /\ pc' = [pc EXCEPT ![c] = "receipt"]
            /\ UNCHANGED outcome
    /\ UNCHANGED <<args, base_calculation, days, miles, receipts, receipt_multiplier,
                   days_multiplier, miles_component, total, result, fpUp,
                   nan, mainVars>>

(* lines 33-45; with receipts NaN and days > 0 every comparison is false *)
ReceiptAdjust(c) ==
    /\ pc[c] = "receipt"
    /\ receipt_multiplier' =
           [receipt_multiplier EXCEPT ![c] =
                IF "receipts" \in nan[c] /\ DaysPositive(days[c]) THEN 5
                ELSE ReceiptMultiplier(days[c], receipts[c])]
    /\ pc' = [pc EXCEPT ![c] = "trip"]
    /\ UNCHANGED <<args, base_calculation, days, miles, receipts, efficiency_bonus,
                   days_multiplier, miles_component, total, outcome, result,
                   fpUp, nan, mainVars>>

(* lines 48-53 *)
TripAdjust(c) ==
    /\ pc[c] = "trip"
    /\ days_multiplier' = [days_multiplier EXCEPT ![c] = DaysMultiplier(days[c])]
    /\ pc' = [pc EXCEPT ![c] = "mileage"]
    /\ UNCHANGED <<args, base_calculation, days, miles, receipts, efficiency_bonus,
                   receipt_multiplier, miles_component, total, outcome, result,
                   fpUp, nan, mainVars>>

(* lines 56-62; with miles NaN `miles > 500` is false and miles * 0.5 NaN *)
MileageAdjust(c) ==
    /\ pc[c] = "mileage"
    /\ IF "miles" \in nan[c]
       THEN /\ nan' = [nan EXCEPT ![c] = @ \cup {"miles_component"}]
            /\ UNCHANGED miles_component
       ELSE /\ miles_component' =
                  [miles_component EXCEPT ![c] = MilesComponent(days[c], miles[c])]
            /\ UNCHANGED nan
    /\ pc' = [pc EXCEPT ![c] = "sum"]
    /\ UNCHANGED <<args, base_calculation, days, miles, receipts, efficiency_bonus,
                   receipt_multiplier, days_multiplier, total, outcome, result,
                   fpUp, mainVars>>

(* lines 65-68; a NaN term makes the sum NaN *)
Sum(c) ==
    /\ pc[c] = "sum"
    /\ IF "receipts" \in nan[c] \/ "miles_component" \in nan[c]
       THEN /\ nan' = [nan EXCEPT ![c] = @ \cup {"total"}]
            /\ UNCHANGED total
       ELSE /\ total' = [total EXCEPT ![Frame(c)] =
                            SumTotal(days_multiplier[c], receipt_multiplier[c],
                                     miles_component[c], efficiency_bonus[c],
                                     days[c], receipts[c])]
            /\ UNCHANGED nan
    /\ pc' = [pc EXCEPT ![c] = "floor"]
    /\ UNCHANGED <<args, base_calculation, days, miles, receipts, efficiency_bonus,
                   receipt_multiplier, days_multiplier, miles_component,
                   outcome, result, fpUp, mainVars>>

(* lines 71-72; max(NaN, minimum) is its first argument, NaN *)
Floor(c) ==
    /\ pc[c] = "floor"
    /\ IF "total" \in nan[c]
       THEN UNCHANGED total
       ELSE total' = [total EXCEPT ![Frame(c)] =
                          FloorClamp(total[Frame(c)], days[c])]
    /\ pc' = [pc EXCEPT ![c] = "cap"]
    /\ UNCHANGED <<args, base_calculation, days, miles, receipts, efficiency_bonus,
                   receipt_multiplier, days_multiplier, miles_component,
                   outcome, result, fpUp, nan, mainVars>>

(* lines 75-76; min(NaN, reasonable_max) is its first argument, NaN *)
Cap(c) ==
    /\ pc[c] = "cap"
    /\ IF "total" \in nan[c]
       THEN UNCHANGED total
       ELSE total' = [total EXCEPT ![Frame(c)] =
                          CapClamp(total[Frame(c)], days[c], miles[c], receipts[c])]
    /\ pc' = [pc EXCEPT ![c] = "round"]
    /\ UNCHANGED <<args, base_calculation, days, miles, receipts, efficiency_bonus,
                   receipt_multiplier, days_multiplier, miles_component,
                   outcome, result, fpUp, nan, mainVars>>

(* line 78; round(NaN, 2) is NaN *)
Return(c) ==
    /\ pc[c] = "round"
    /\ IF "total" \in nan[c]
       THEN /\ nan' = [nan EXCEPT ![c] = @ \cup {"result"}]
            /\ UNCHANGED result
       ELSE /\ result' = [result EXCEPT ![c] =
                             ReturnValue(total[Frame(c)], days[c], RoundsUp(c))]
            /\ UNCHANGED nan
    /\ outcome' = [outcome EXCEPT ![c] = "returned"]
    /\ pc' = [pc EXCEPT ![c] = "done"]
    /\ UNCHANGED <<args, base_calculation, days, miles, receipts, efficiency_bonus,
                   receipt_multiplier, days_multiplier, miles_component,
                   total, fpUp, mainVars>>

Next ==
    \/ \E c \in Calls : Coerce(c)
    \/ \E c \in Calls : BaseFormula(c)
    \/ \E c \in Calls : Bonus(c)
    \/ \E c \in Calls : ReceiptAdjust(c)
    \/ \E c \in Calls : TripAdjust(c)
    \/ \E c \in Calls : MileageAdjust(c)
    \/ \E c \in Calls : Sum(c)
    \/ \E c \in Calls : Floor(c)
    \/ \E c \in Calls : Cap(c)
    \/ \E c \in Calls : Return(c)

Spec == Init /\ [][Next]_vars

---------------------------------------------------------------------------
(* Several independent callers of the function, calling again and again *)

ConcInputs ==
    {<<Arg("int", d), Arg("int", 100 * (d + 4)), Arg("float", r)>> :
        d \in {1, 2}, r \in {1000, 5001}}

InitConc ==
    /\ InitCalls(1..NumCallers, ConcInputs)
    /\ fpUp \in SUBSET TieInputs(ConcInputs)
    /\ NoMain

(* a caller whose call has ended calls again: a new frame, new arguments *)
Again(c) ==
    /\ pc[c] = "done"
    /\ \E in \in ConcInputs : args' = [args EXCEPT ![c] = in]
    /\ pc' = [pc EXCEPT ![c] = "call"]
    /\ days' = [days EXCEPT ![c] = 0]
    /\ miles' = [miles EXCEPT ![c] = 0]
    /\ receipts' = [receipts EXCEPT ![c] = 0]
    /\ base_calculation' = [base_calculation EXCEPT ![c] = 0]
    /\ efficiency_bonus' = [efficiency_bonus EXCEPT ![c] = 0]
    /\ receipt_multiplier' = [receipt_multiplier EXCEPT ![c] = 0]
    /\ days_multiplier' = [days_multiplier EXCEPT ![c] = 0]
    /\ miles_component' = [miles_component EXCEPT ![c] = 0]
    /\ outcome' = [outcome EXCEPT ![c] = "none"]
    /\ result' = [result EXCEPT ![c] = 0]
    /\ total' = [total EXCEPT ![Frame(c)] = 0]
    /\ nan' = [nan EXCEPT ![c] = {}]
    /\ UNCHANGED <<fpUp, mainVars>>

NextConc ==
    \/ Next
    \/ \E c \in Calls : Again(c)

SpecConc == InitConc /\ [][NextConc]_vars

---------------------------------------------------------------------------
(* The program: the __main__ block, lines 80-90 *)

MaxArgc == 4

(* arguments of the command lines that do not have three of them *)
ArgPool == {Arg("int", 3), Arg("text", 0)}

MainDayArgs == DayArgs \cup {Arg("float", 2), Arg("text", 0), Arg("nan", 0)}
MainMileArgs == MileArgs \cup {Arg("text", 0), Arg("nan", 0)}
MainReceiptArgs == ReceiptArgs \cup {Arg("text", 0), Arg("nan", 0)}

(* sys.argv[1:] *)
CommandLines ==
    {<<d, m, r>> : d \in MainDayArgs, m \in MainMileArgs, r \in MainReceiptArgs}
    \cup UNION {[1..n -> ArgPool] : n \in (0..MaxArgc) \ {3}}

(* variant: `len(sys.argv) < 4`, surplus arguments let through *)
TooFewArgs(av) == Len(av) + 1 < 4

(* line 81: len(sys.argv) != 4, sys.argv[0] being the program *)
WrongArgCount(av) == Len(av) + 1 # 4

NoArgs == <<Arg("text", 0), Arg("text", 0), Arg("text", 0)>>

(* what print() is given *)
UsageLine == [kind |-> "usage", value |-> 0, nan |-> FALSE]
ResultLine(v, isnan) == [kind |-> "result", value |-> v, nan |-> isnan]

InitMain ==
    /\ argv \in CommandLines
    /\ mpc = "start"
    /\ stdout = <<>>
    /\ exit_code = <<>>
    /\ pc = [c \in {1} |-> "idle"]
    /\ args = [c \in {1} |-> NoArgs]
    /\ days = [c \in {1} |-> 0]
    /\ miles = [c \in {1} |-> 0]
    /\ receipts = [c \in {1} |-> 0]
    /\ base_calculation = [c \in {1} |-> 0]
    /\ efficiency_bonus = [c \in {1} |-> 0]
    /\ receipt_multiplier = [c \in {1} |-> 0]
    /\ days_multiplier = [c \in {1} |-> 0]
    /\ miles_component = [c \in {1} |-> 0]
    /\ total = [f \in Frames({1}) |-> 0]
    /\ outcome = [c \in {1} |-> "none"]
    /\ result = [c \in {1} |-> 0]
    /\ nan = [c \in {1} |-> {}]
    /\ fpUp \in SUBSET TieInputs(IF Len(argv) = 3 THEN {argv} ELSE {})

callVars == <<days, miles, receipts, base_calculation, efficiency_bonus, receipt_multiplier,
              days_multiplier, miles_component, total, outcome, result,
              fpUp, nan>>

(* lines 81-83: usage message, sys.exit(1) *)
MainUsage ==
    /\ mpc = "start"
    /\ WrongArgCount(argv)
    /\ stdout' = Append(stdout, UsageLine)
    /\ exit_code' = <<1>>
    /\ mpc' = "exited"
    /\ UNCHANGED <<argv, pc, args, callVars>>

(* lines 85-89: the three arguments are passed to the function *)
MainCall ==
    /\ mpc = "start"
    /\ ~WrongArgCount(argv)
    /\ args' = [args EXCEPT ![1] = <<argv[1], argv[2], argv[3]>>]
    /\ pc' = [pc EXCEPT ![1] = "call"]
    /\ mpc' = "calling"
    /\ UNCHANGED <<argv, stdout, exit_code, callVars>>

(* line 90: the value returned is printed; the program ends with status 0 *)
MainPrint ==
    /\ mpc = "calling"
    /\ pc[1] = "done"
    /\ outcome[1] = "returned"
    /\ stdout' = Append(stdout, ResultLine(result[1], "result" \in nan[1]))
    /\ exit_code' = <<0>>
    /\ mpc' = "exited"
    /\ UNCHANGED <<argv, pc, args, callVars>>

(* line 89: nothing catches an exception of the call: the interpreter      *)
(* writes the traceback to stderr and ends with status 1                   *)
MainCrash ==
    /\ mpc = "calling"
    /\ pc[1] = "done"
    /\ outcome[1] # "returned"
    /\ exit_code' = <<1>>
    /\ mpc' = "exited"
    /\ UNCHANGED <<argv, stdout, pc, args, callVars>>

NextMain ==
    \/ Next
    \/ MainUsage
    \/ MainCall
    \/ MainPrint
    \/ MainCrash

SpecMain == InitMain /\ [][NextMain]_vars

---------------------------------------------------------------------------
(* Vocabulary of the properties *)

ArgDays(c) == args[c][1].val
ArgMiles(c) == args[c][2].val
ArgReceipts(c) == args[c][3].val

Done(c) == pc[c] = "done"
Returned(c) == Done(c) /\ outcome[c] = "returned"

(* days >= 1, miles >= 0, receipts >= 0 *)
WellFormed(c) ==
    /\ NumericInput(args[c])
    /\ ArgDays(c) >= 1
    /\ ArgMiles(c) >= 0
    /\ ArgReceipts(c) >= 0

Abs(x) == IF x >= 0 THEN x ELSE -x

(* one cent, as a numerator *)
OneCent(d) == Scale(d) \div 100

---------------------------------------------------------------------------
(* C1: whenever days <= 0, or miles < 0, or receipts < 0, the call ends by *)
(* signalling InvalidInput and returns no amount.                          *)
C1_InvalidInputSignalled ==
    \A c \in Calls :
        (/\ Done(c)
         /\ NumericInput(args[c])
         /\ (ArgDays(c) <= 0 \/ ArgMiles(c) < 0 \/ ArgReceipts(c) < 0))
        => outcome[c] = "InvalidInput"

(* C2: floor invariant: for days >= 1, miles >= 0, receipts >= 0 the value *)
(* returned is at least days * 60.                                         *)
C2_Floor ==
    \A c \in Calls :
        (Done(c) /\ WellFormed(c))
        => /\ outcome[c] = "returned"
           /\ result[c] >= Num(ArgDays(c) * 60, ArgDays(c))

(* a long trip without miles or receipts: the total closest to the floor *)
C2_Witness ==
    \E c \in Calls :
        /\ Returned(c) /\ WellFormed(c)
        /\ ArgDays(c) = 11 /\ ArgMiles(c) = 0 /\ ArgReceipts(c) = 0
        /\ result[c] = Num(715, 11)

(* days*300 + receipts*1.5 + miles*2 of the arguments of c, exactly *)
CapOfArgs(c) ==
    Num(ArgDays(c) * 300, ArgDays(c))
    + (ArgReceipts(c) * 15 * OneCent(ArgDays(c))) \div 10
    + Num(ArgMiles(c) * 2, ArgDays(c))

(* C3: cap invariant: for days >= 1, miles >= 0, receipts >= 0 the value   *)
(* returned is at most round(days*300 + receipts*1.5 + miles*2, 2),        *)
(* whichever way that rounding goes when the cap is halfway between cents. *)
C3_Cap ==
    \A c \in Calls :
        (Done(c) /\ WellFormed(c))
        => /\ outcome[c] = "returned"
           /\ \A up \in BOOLEAN :
                  result[c] <= Round2(CapOfArgs(c), ArgDays(c), up)

(* the input where the total comes closest to the cap: one day, 500 miles *)
C3_Witness ==
    \E c \in Calls :
        /\ Returned(c) /\ WellFormed(c)
        /\ ArgDays(c) = 1 /\ ArgMiles(c) = 500 /\ ArgReceipts(c) = 0
        /\ result[c] = Num(460, 1)
        /\ CapOfArgs(c) = Num(1300, 1)

(* value returned for d days, 500 miles, r receipts, halfway direction up *)
AtBoundary(d, r, up) == calculate_reimbursement(d, 500, r, up).value

(* 0.30 * k dollars as a numerator *)
MarginalRate(k, d) == 30 * k * OneCent(d)

(* C4 as stated: for every valid days and receipts, the result at 500 + k  *)
(* miles exceeds the result at 500 miles by exactly 0.30 * k.              *)
C4_Original ==
    \A c \in Calls :
        (Done(c) /\ WellFormed(c) /\ ArgMiles(c) > 500 /\ ArgMiles(c) <= 500 + MaxK)
        => \A up \in BOOLEAN :
               result[c] - AtBoundary(ArgDays(c), ArgReceipts(c), up)
                   = MarginalRate(ArgMiles(c) - 500, ArgDays(c))

(* C4 amended: when 500 + k <= 100 * days (no efficiency bonus on either   *)
(* side of the boundary) and k is a whole number of miles, the result at   *)
(* 500 + k miles exceeds the result at 500 miles by 0.30 * k: exactly when *)
(* the total is not halfway between two cents, to within one cent when it  *)
(* is.                                                                     *)
C4_Continuity ==
    \A c \in Calls :
        (/\ Done(c) /\ WellFormed(c)
         /\ ArgMiles(c) > 500 /\ ArgMiles(c) <= 500 + MaxK
         /\ ArgMiles(c) <= 100 * ArgDays(c))
        => \A up \in BOOLEAN :
               LET diff == result[c] - AtBoundary(ArgDays(c), ArgReceipts(c), up)
                   gap  == diff - MarginalRate(ArgMiles(c) - 500, ArgDays(c))
                   half == (ArgReceipts(c) * ReceiptMultiplier(ArgDays(c), ArgReceipts(c))) % 10 = 5
               IN  /\ outcome[c] = "returned"
                   /\ ~half => gap = 0
                   /\ half => Abs(gap) <= OneCent(ArgDays(c))

(* one mile above the boundary on a six-day trip, total halfway between    *)
(* two cents (0.5 * 300.01)                                                *)
C4_Witness ==
    \E c \in Calls :
        /\ Returned(c) /\ WellFormed(c)
        /\ ArgDays(c) = 6 /\ ArgMiles(c) = 501 /\ ArgReceipts(c) = 30001
        /\ receipt_multiplier[c] = 5
        /\ efficiency_bonus[c] = 0
        /\ miles_component[c] = Num(250, 6) + MarginalRate(1, 6)

(* receipts-per-day bracket of the claim: 0 above 300, 1 above 150,        *)
(* 2 below 50, 3 otherwise; r in cents                                     *)
ReceiptTier(d, r) ==
    IF r > 30000 * d THEN 0
    ELSE IF r > 15000 * d THEN 1
    ELSE IF r < 5000 * d THEN 2
    ELSE 3

(* C5: for fixed valid days and miles and receipts r1 <= r2 in the same    *)
(* receipts-per-day tier, the result for r1 is at most the result for r2.  *)
C5_MonotoneReceipts ==
    \A c \in Calls :
        (Done(c) /\ WellFormed(c))
        => /\ outcome[c] = "returned"
           /\ \A r1 \in ReceiptValues :
                  (/\ r1 >= 0 /\ r1 < ArgReceipts(c)
                   /\ ReceiptTier(ArgDays(c), r1) = ReceiptTier(ArgDays(c), ArgReceipts(c)))
                  => \A up \in BOOLEAN :
                         calculate_reimbursement(ArgDays(c), ArgMiles(c), r1, up).value
                             <= result[c]

(* 50.01 against 49.99 on a two-day trip: both below 50 per day *)
C5_Witness ==
    \E c \in Calls :
        /\ Returned(c) /\ WellFormed(c)
        /\ ArgDays(c) = 2 /\ ArgReceipts(c) = 5001
        /\ ReceiptTier(2, 4999) = ReceiptTier(2, 5001)
        /\ receipt_multiplier[c] = 6
        /\ calculate_reimbursement(2, ArgMiles(c), 4999, TRUE).value < result[c]

(* C6: for days >= 1, miles >= 0, receipts >= 0 the call raises no error   *)
(* and returns a non-negative amount.                                      *)
C6_NonNegativeNoError ==
    \A c \in Calls :
        (Done(c) /\ WellFormed(c))
        => /\ outcome[c] = "returned"
           /\ result[c] >= 0

(* large receipts on a one-day trip *)
C6_Witness ==
    \E c \in Calls :
        /\ Returned(c) /\ WellFormed(c)
        /\ ArgDays(c) = 1 /\ ArgMiles(c) = 0 /\ ArgReceipts(c) = 300000
        /\ result[c] = Num(690, 1)

(* every ended call has the outcome and value of the function of its own   *)
(* arguments; calls with identical arguments have identical results        *)
DeterministicResults ==
    /\ \A c \in Calls :
           Done(c) =>
               /\ NumericInput(args[c])
               /\ [outcome |-> outcome[c], value |-> result[c]]
                      = calculate_reimbursement(ArgDays(c), ArgMiles(c),
                                                ArgReceipts(c), RoundsUp(c))
    /\ \A c1, c2 \in Calls :
           (Done(c1) /\ Done(c2) /\ args[c1] = args[c2])
           => (outcome[c1] = outcome[c2] /\ result[c1] = result[c2])

(* a step leaves untouched everything of the calls that did not take it *)
NoInterference ==
    \A c \in Calls :
        pc'[c] = pc[c] =>
            /\ args'[c] = args[c]
            /\ days'[c] = days[c]
            /\ miles'[c] = miles[c]
            /\ receipts'[c] = receipts[c]
            /\ base_calculation'[c] = base_calculation[c]
            /\ efficiency_bonus'[c] = efficiency_bonus[c]
            /\ receipt_multiplier'[c] = receipt_multiplier[c]
            /\ days_multiplier'[c] = days_multiplier[c]
            /\ miles_component'[c] = miles_component[c]
            /\ total'[Frame(c)] = total[Frame(c)]
            /\ outcome'[c] = outcome[c]
            /\ result'[c] = result[c]
            /\ nan'[c] = nan[c]

(* C7: in any sequence or interleaving of calls the result of a call       *)
(* depends only on its own days, miles, receipts; identical inputs give    *)
(* identical results; a call changes no state visible to another call.     *)
C7_Stateless == []DeterministicResults /\ [][NoInterference]_vars

(* two calls with the same arguments, one ended and one still between its  *)
(* clamps, a halfway total                                                 *)
C7_Witness ==
    /\ Cardinality(Calls) >= 2
    /\ \E c1, c2 \in Calls :
           /\ c1 # c2
           /\ args[c1] = args[c2]
           /\ args[c1] \in TieInputs(ConcInputs)
           /\ Returned(c1)
           /\ pc[c2] = "cap"

(* C8: with days = 0 nothing divides by zero: miles-per-day and            *)
(* receipts-per-day are 0, so no bonus is added and the multiplier is the  *)
(* one of a 0 per-day rate (0.6), and the floor applied is 0.              *)
C8_ZeroDays ==
    \A c \in Calls :
        (Done(c) /\ NumericInput(args[c]) /\ ArgDays(c) = 0)
        => LET m   == ArgMiles(c)
               r   == ArgReceipts(c)
               mc  == IF m > 500 THEN 250000 + 300 * (m - 500) ELSE 500 * m
               sum == 6 * r + mc
               cap == 15 * r + 2000 * m
           IN  /\ outcome[c] = "returned"
               /\ miles_per_day(days[c], miles[c]) = 0
               /\ receipts_per_day(days[c], receipts[c]) = 0
               /\ efficiency_bonus[c] = 0
               /\ receipt_multiplier[c] = 6
               /\ \E up \in BOOLEAN :
                      result[c] = Round2(Min(Max(sum, 0), cap), 0, up)

(* zero days with miles that a positive duration would reward *)
C8_Witness ==
    \E c \in Calls :
        /\ Returned(c)
        /\ ArgDays(c) = 0 /\ ArgMiles(c) = 600 /\ ArgReceipts(c) = 5000
        /\ result[c] = Num(310, 0)

Scenario(c, d, m, r) ==
    /\ Done(c) /\ NumericInput(args[c])
    /\ ArgDays(c) = d /\ ArgMiles(c) = m /\ ArgReceipts(c) = r

(* C9: (1, 50, 10.00) gives 121.00; (3, 300, 150.00) gives 450.00;         *)
(* (15, 600, 50.00) gives 1285.00.                                         *)
C9_Scenarios ==
    \A c \in Calls :
        /\ Scenario(c, 1, 50, 1000)
               => (outcome[c] = "returned" /\ result[c] = CentsNum(12100, 1))
        /\ Scenario(c, 3, 300, 15000)
               => (outcome[c] = "returned" /\ result[c] = CentsNum(45000, 3))
        /\ Scenario(c, 15, 600, 5000)
               => (outcome[c] = "returned" /\ result[c] = CentsNum(128500, 15))

(* the second scenario: receipts per day exactly 50, miles per day 100 *)
C9_Witness ==
    \E c \in Calls :
        /\ Scenario(c, 3, 300, 15000)
        /\ receipt_multiplier[c] = 5
        /\ efficiency_bonus[c] = 0
        /\ result[c] = Num(450, 3)

(* C10: the value returned has at most 2 decimal places, and it is the     *)
(* rounding of the total as it stands after the floor clamp and the cap    *)
(* clamp: rounding is the last step.                                       *)
C10_RoundedLast ==
    \A c \in Calls :
        Returned(c)
        => LET sum == SumTotal(days_multiplier[c], receipt_multiplier[c],
                               miles_component[c], efficiency_bonus[c],
                               days[c], receipts[c])
               clamped == Min(Max(sum, minimum(days[c])),
                              reasonable_max(days[c], miles[c], receipts[c]))
           IN  /\ WholeCents(result[c], days[c])
               /\ total[Frame(c)] = clamped
               /\ \E up \in BOOLEAN : result[c] = Round2(clamped, days[c], up)

(* a total with a fraction of a cent, altered by the cap clamp: negative   *)
(* days make the cap bind at -299.985                                      *)
C10_Witness ==
    \E c \in Calls :
        /\ Returned(c)
        /\ ArgDays(c) = -1 /\ ArgMiles(c) = 0 /\ ArgReceipts(c) = 1
        /\ total[Frame(c)] = -299985
        /\ ~WholeCents(total[Frame(c)], days[c])
        /\ result[c] \in {-299980, -299990}

---------------------------------------------------------------------------
Exited == mpc = "exited"

(* C11: with a number of arguments other than three the program prints     *)
(* the usage message and exits with code 1, and never calls the function   *)
(* or prints an amount; with exactly three it calls the function on them   *)
(* and prints the value the call returns.                                  *)
C11_CommandSurface ==
    /\ Len(argv) # 3 =>
           /\ pc[1] = "idle" /\ outcome[1] = "none"
           /\ \A i \in 1..Len(stdout) : stdout[i].kind = "usage"
           /\ Exited => (stdout = <<UsageLine>> /\ exit_code = <<1>>)
    /\ (Len(argv) = 3 /\ Exited) =>
           /\ pc[1] = "done"
           /\ args[1] = argv
           /\ outcome[1] = "returned" =>
                  /\ stdout = <<ResultLine(result[1], "result" \in nan[1])>>
                  /\ exit_code = <<0>>
                  /\ nan[1] = {} =>
                         result[1] = calculate_reimbursement(
                                         argv[1].val, argv[2].val, argv[3].val,
                                         RoundsUp(1)).value

(* four arguments, the first three of them numbers *)
C11_Witness ==
    /\ Exited
    /\ Len(argv) = 4
    /\ \A i \in 1..3 : argv[i].kind = "int"
    /\ stdout = <<UsageLine>>
    /\ exit_code = <<1>>

NonNumeric(a) == a.kind \in {"text", "nan"}

(* C12: a non-numeric argument ends in an error outcome: non-zero exit,    *)
(* no amount printed.                                                      *)
C12_NonNumericRejected ==
    (Exited /\ Len(argv) = 3 /\ \E i \in 1..3 : NonNumeric(argv[i]))
    => /\ outcome[1] \notin {"returned", "none"}
       /\ exit_code \notin {<<>>, <<0>>}
       /\ stdout = <<>>

---------------------------------------------------------------------------
(* The components as the specification words them, from the arguments;     *)
(* d >= 1, m whole miles, r cents; numerators over Scale(d)                *)

AfterSum(c) == pc[c] = "floor"

SpecRate(d) == IF d = 1 THEN 90 ELSE IF d <= 10 THEN 75 ELSE 65

SpecBase(d) == SpecRate(d) * d * Scale(d)

(* in tenths; r / d compared with 300, 150, 50 *)
SpecMultiplier(d, r) ==
    IF r > 30000 * d THEN 2
    ELSE IF r >= 15000 * d /\ r # 15000 * d THEN 4
    ELSE IF r >= 5000 * d THEN 5
    ELSE 6

SpecReceipt(d, r) == (SpecMultiplier(d, r) * r * OneCent(d)) \div 10

SpecMileage(d, m) ==
    ((Min(m, 500) * 5 + Max(m - 500, 0) * 3) * Scale(d)) \div 10

SpecBonus(d, m) == IF m > 100 * d THEN 300 * (m - 100 * d) ELSE 0

(* C13: the receipt multiplier is 0.2 above 300 per day, 0.4 above 150 up  *)
(* to 300, 0.6 below 50 and 0.5 from 50 up to 150 (exactly 50 per day:     *)
(* 0.5), and the receipt component is that multiplier times the full       *)
(* receipts amount.                                                        *)
C13_ReceiptComponent ==
    \A c \in Calls :
        (AfterSum(c) /\ WellFormed(c))
        => /\ receipt_multiplier[c] = SpecMultiplier(ArgDays(c), ArgReceipts(c))
           /\ total[Frame(c)] - Num(days_multiplier[c] * days[c], days[c])
                  - miles_component[c] - efficiency_bonus[c]
                  = SpecReceipt(ArgDays(c), ArgReceipts(c))

(* receipts of exactly 50 per day on a three-day trip: 0.5 * 150.00 *)
C13_Witness ==
    \E c \in Calls :
        /\ AfterSum(c) /\ WellFormed(c)
        /\ ArgDays(c) = 3 /\ ArgReceipts(c) = 15000
        /\ receipt_multiplier[c] = 5
        /\ SpecReceipt(3, 15000) = Num(75, 3)

(* C14: the daily rate is 90 for 1 day, 75 for 2 to 10 days, 65 above 10   *)
(* days, and the base component is the rate times days.                    *)
C14_PerDiem ==
    \A c \in Calls :
        (AfterSum(c) /\ WellFormed(c))
        => /\ days_multiplier[c] = SpecRate(ArgDays(c))
           /\ total[Frame(c)]
                  - TimesTenths(CentsNum(receipts[c], days[c]), receipt_multiplier[c])
                  - miles_component[c] - efficiency_bonus[c]
                  = SpecBase(ArgDays(c))

(* ten days: the last day count of the 75 bracket *)
C14_Witness ==
    \E c \in Calls :
        /\ AfterSum(c) /\ WellFormed(c)
        /\ ArgDays(c) = 10
        /\ days_multiplier[c] = 75
        /\ SpecBase(10) = Num(750, 10)

(* C15: for miles >= 0 the mileage component is                            *)
(* min(miles, 500) * 0.50 + max(miles - 500, 0) * 0.30.                    *)
C15_MileageComponent ==
    \A c \in Calls :
        (/\ pc[c] \in {"sum", "floor", "cap", "round", "done"}
         /\ NumericInput(args[c]) /\ ArgMiles(c) >= 0)
        => miles_component[c] = SpecMileage(ArgDays(c), ArgMiles(c))

(* 601 miles: 250 for the first 500, 30.30 for the other 101 *)
C15_Witness ==
    \E c \in Calls :
        /\ pc[c] = "sum"
        /\ ArgDays(c) = 4 /\ ArgMiles(c) = 601
        /\ miles_component[c] = CentsNum(28030, 4)

(* C16: the bonus is (miles/days - 100) * 0.3 when miles/days > 100 and 0  *)
(* otherwise (also at exactly 100); it is added to the mileage component,  *)
(* which stays whole.                                                      *)
C16_EfficiencyBonus ==
    \A c \in Calls :
        (AfterSum(c) /\ WellFormed(c))
        => /\ efficiency_bonus[c] = SpecBonus(ArgDays(c), ArgMiles(c))
           /\ total[Frame(c)] - Num(days_multiplier[c] * days[c], days[c])
                  - TimesTenths(CentsNum(receipts[c], days[c]), receipt_multiplier[c])
                  = SpecMileage(ArgDays(c), ArgMiles(c))
                    + SpecBonus(ArgDays(c), ArgMiles(c))

(* 300 miles in two days: 150 per day, bonus 15, mileage component 150 *)
C16_Witness ==
    \E c \in Calls :
        /\ AfterSum(c) /\ WellFormed(c)
        /\ ArgDays(c) = 2 /\ ArgMiles(c) = 300
        /\ efficiency_bonus[c] = Num(15, 2)
        /\ miles_component[c] = Num(150, 2)

(* the four components of the arguments of c, summed *)
SumOfArgs(c) ==
    SumTotal(DaysMultiplier(ArgDays(c)),
             ReceiptMultiplier(ArgDays(c), ArgReceipts(c)),
             MilesComponent(ArgDays(c), ArgMiles(c)),
             EfficiencyBonus(ArgDays(c), ArgMiles(c)),
             ArgDays(c), ArgReceipts(c))

FloorOfArgs(c) == Num(ArgDays(c) * 60, ArgDays(c))

(* C17: the total before the clamps is base + receipt + mileage + bonus,   *)
(* each from the raw inputs, without the linear estimate of line 22; then  *)
(* the floor clamp, then the cap clamp, then the rounding.                 *)
C17_AggregationOrder ==
    \A c \in Calls :
        NumericInput(args[c]) =>
            /\ pc[c] = "floor" => total[Frame(c)] = SumOfArgs(c)
            /\ pc[c] = "cap" => total[Frame(c)] = Max(SumOfArgs(c), FloorOfArgs(c))
            /\ pc[c] \in {"round", "done"} =>
                   total[Frame(c)] = Min(Max(SumOfArgs(c), FloorOfArgs(c)), CapOfArgs(c))
            /\ Returned(c) =>
                   result[c] = Round2(Min(Max(SumOfArgs(c), FloorOfArgs(c)),
                                          CapOfArgs(c)),
                                      ArgDays(c), RoundsUp(c))

(* zero days and negative miles: the cap (-200) lies below the floor (0),  *)
(* and the cap, applied second, decides                                    *)
C17_Witness ==
    \E c \in Calls :
        /\ Returned(c)
        /\ ArgDays(c) = 0 /\ ArgMiles(c) = -100 /\ ArgReceipts(c) = 0
        /\ base_calculation[c] = Num(-50, 0)
        /\ CapOfArgs(c) < FloorOfArgs(c)
        /\ result[c] = Num(-200, 0)

(* C18: for days >= 1, miles >= 0, receipts >= 0 neither clamp changes the *)
(* total: the sum lies between days*60 and the cap, and the result is the  *)
(* rounded sum.                                                            *)
C18_ClampsIdle ==
    \A c \in Calls :
        WellFormed(c) =>
            LET sum == SumTotal(days_multiplier[c], receipt_multiplier[c],
                                miles_component[c], efficiency_bonus[c],
                                days[c], receipts[c])
            IN  /\ pc[c] \in {"floor", "cap", "round", "done"} =>
                       /\ total[Frame(c)] = sum
                       /\ FloorOfArgs(c) <= sum
                       /\ sum <= CapOfArgs(c)
                       /\ FloorOfArgs(c) <= CapOfArgs(c)
                /\ Done(c) =>
                       /\ outcome[c] = "returned"
                       /\ result[c] = Round2(sum, days[c], RoundsUp(c))

(* sixteen days without miles or receipts: the sum, 65 a day, is the one   *)
(* nearest to the floor of 60 a day                                        *)
C18_Witness ==
    \E c \in Calls :
        /\ Returned(c) /\ WellFormed(c)
        /\ ArgDays(c) = 16 /\ ArgMiles(c) = 0 /\ ArgReceipts(c) = 0
        /\ total[Frame(c)] = Num(1040, 16)
        /\ FloorOfArgs(c) = Num(960, 16)

(* C19: for fixed days >= 1 and receipts >= 0 the result does not decrease *)
(* when miles grow, across 500 miles and across 100 miles per day too.     *)
C19_MonotoneMiles ==
    \A c \in Calls :
        (Done(c) /\ WellFormed(c))
        => /\ outcome[c] = "returned"
           /\ \A m1 \in MileValues :
                  (m1 >= 0 /\ m1 < ArgMiles(c))
                  => \A up \in BOOLEAN :
                         calculate_reimbursement(ArgDays(c), m1, ArgReceipts(c), up).value
                             <= result[c]

(* 501 against 500 miles on a five-day trip: both thresholds crossed *)
C19_Witness ==
    \E c \in Calls :
        /\ Returned(c) /\ WellFormed(c)
        /\ ArgDays(c) = 5 /\ ArgMiles(c) = 501
        /\ efficiency_bonus[c] > 0
        /\ EfficiencyBonus(5, 500) = 0
        /\ calculate_reimbursement(5, 500, ArgReceipts(c), TRUE).value < result[c]

=============================================================================
